---- MODULE Spec2Model ----
(***************************************************************************)
(* Model of the FastF1 Flask API server (src/main.py): the process-wide    *)
(* current_session handle and session_data snapshot, the session loader,   *)
(* the extraction pass update_session_data and the HTTP handlers, run by   *)
(* request threads that interleave at statement granularity.               *)
(***************************************************************************)
EXTENDS Integers, Sequences, FiniteSets, TLC

(***************************************************************************)
(* Bounds of the model.                                                    *)
(***************************************************************************)
\* number of request-handling threads of the HTTP server
NThreads == 2
\* number of POST requests (load or refresh) served in one behaviour
MaxPosts == 2

Threads == 1..NThreads

(***************************************************************************)
(* Python values.  Values of different Python types are tagged records, so *)
(* that None, NaN/NaT, numbers and formatted strings never compare equal.  *)
(***************************************************************************)
\* Python's None
None == [none |-> TRUE]
\* a missing cell of a pandas table (float NaN, or NaT for a Timedelta)
NaN == [nan |-> TRUE]
\* a numeric cell of a pandas table (Timedelta cells count whole seconds)
Num(n) == [num |-> n]
IsNaN(c) == "nan" \in DOMAIN c
\* Series.notna()
NotNa(c) == ~IsNaN(c)
\* int(x) raises ValueError on NaN
IntRaises(c) == IsNaN(c)
\* int(x) on a numeric cell
PyInt(c) == c.num
\* str(x) of a Timedelta/NaT cell: a string, never equal to the cell itself
PyStr(c) == [str |-> c]
\* Timedelta.total_seconds()
TotalSeconds(c) == c.num
\* Timedelta - Timedelta; NaT propagates
TdSub(a, b) == IF IsNaN(a) \/ IsNaN(b) THEN NaN ELSE Num(a.num - b.num)
\* datetime.now().isoformat() at clock tick n
IsoFormat(n) == [iso |-> n]

Min(a, b) == IF a <= b THEN a ELSE b

(***************************************************************************)
(* The telemetry collaborator.  A session handle exposes the tables        *)
(* results and laps, and the optional attributes track_status and          *)
(* race_control_messages.  A table is its set of columns and its rows.     *)
(***************************************************************************)
Table(cols, rows) == [cols |-> cols, rows |-> rows]

ResultCols == {"Position", "Abbreviation", "FullName", "TeamName", "DriverNumber", "GridPosition", "Status"}
LapCols == {"Driver", "Team", "LapNumber", "LapTime", "PitInTime", "PitOutTime"}

ResultRow(pos, abbr, name, team, num, grid, st) ==
  [Position |-> pos, Abbreviation |-> abbr, FullName |-> name, TeamName |-> team,
   DriverNumber |-> num, GridPosition |-> grid, Status |-> st]

LapRow(drv, team, lap, time, pitin, pitout) ==
  [Driver |-> drv, Team |-> team, LapNumber |-> lap, LapTime |-> time,
   PitInTime |-> pitin, PitOutTime |-> pitout]

\* a race with twelve laps in the lap log, eleven of them timed
RaceResults ==
  Table(ResultCols,
    << ResultRow(Num(1), "VER", "Max Verstappen", "Red Bull", Num(1), Num(2), "Finished"),
       ResultRow(Num(2), "NOR", "Lando Norris", "McLaren", Num(4), Num(1), "Finished"),
       ResultRow(Num(3), "LEC", "Charles Leclerc", "Ferrari", Num(16), Num(4), "Finished"),
       ResultRow(Num(4), "SAI", "Carlos Sainz", "Ferrari", Num(55), Num(3), "+1 Lap") >>)

RaceLaps ==
  Table(LapCols,
    [i \in 1..12 |->
       LapRow(IF i % 2 = 0 THEN "VER" ELSE "NOR",
              IF i % 2 = 0 THEN "Red Bull" ELSE "McLaren",
              Num((i + 1) \div 2),
              IF i = 5 THEN NaN ELSE Num(90 + ((i * 7) % 12)),
              IF i \in {5, 9} THEN Num(100 * i) ELSE NaN,
              IF i = 9 THEN Num(100 * i + 23) ELSE NaN)])

RaceTrackStatus ==
  Table({"Time", "Status"},
    << [Time |-> Num(0), Status |-> "1"],
       [Time |-> Num(30), Status |-> "2"],
       [Time |-> Num(45), Status |-> "4"],
       [Time |-> Num(80), Status |-> "1"],
       [Time |-> Num(95), Status |-> "9"] >>)

RaceMessages ==
  Table({"Time", "Message", "Category"},
    << [Time |-> Num(30), Message |-> "YELLOW IN SECTOR 2", Category |-> "Flag"],
       [Time |-> Num(45), Message |-> "SAFETY CAR DEPLOYED", Category |-> "SafetyCar"] >>)

\* a practice session: no GridPosition column, no PitOutTime column, and
\* neither of the optional attributes
PracticeResults ==
  Table(ResultCols \ {"GridPosition"},
    << [Position |-> Num(1), Abbreviation |-> "HAM", FullName |-> "Lewis Hamilton",
        TeamName |-> "Mercedes", DriverNumber |-> Num(44), Status |-> "Finished"],
       [Position |-> Num(2), Abbreviation |-> "RUS", FullName |-> "George Russell",
        TeamName |-> "Mercedes", DriverNumber |-> Num(63), Status |-> "Finished"] >>)

PracticeLaps ==
  Table(LapCols \ {"PitOutTime"},
    << [Driver |-> "HAM", Team |-> "Mercedes", LapNumber |-> Num(1), LapTime |-> Num(88), PitInTime |-> NaN],
       [Driver |-> "RUS", Team |-> "Mercedes", LapNumber |-> Num(1), LapTime |-> Num(87), PitInTime |-> Num(150)] >>)

\* the tables of a sprint; each malformed session below spoils one of them
SprintResults ==
  Table(ResultCols,
    << ResultRow(Num(1), "PIA", "Oscar Piastri", "McLaren", Num(81), Num(1), "Finished"),
       ResultRow(Num(2), "ALO", "Fernando Alonso", "Aston Martin", Num(14), Num(5), "Finished"),
       ResultRow(Num(3), "GAS", "Pierre Gasly", "Alpine", Num(10), Num(3), "Finished") >>)

SprintLaps ==
  Table(LapCols,
    << LapRow("PIA", "McLaren", Num(1), Num(85), NaN, NaN),
       LapRow("ALO", "Aston Martin", Num(1), Num(86), Num(70), Num(95)) >>)

SprintTrackStatus ==
  Table({"Time", "Status"},
    << [Time |-> Num(0), Status |-> "1"], [Time |-> Num(12), Status |-> "5"] >>)

\* messages without a Category column
SprintMessages ==
  Table({"Time", "Message"}, << [Time |-> Num(12), Message |-> "RED FLAG"] >>)

SessionHandle(res, hasTs, ts, laps, hasRc, rc) ==
  [results |-> res, has_track_status |-> hasTs, track_status |-> ts, laps |-> laps,
   has_race_control_messages |-> hasRc, race_control_messages |-> rc]

EmptyTable == Table({}, << >>)

\* The sessions the collaborator can return, by name.
Sessions ==
  [ Race     |-> SessionHandle(RaceResults, TRUE, RaceTrackStatus, RaceLaps, TRUE, RaceMessages),
    Practice |-> SessionHandle(PracticeResults, FALSE, EmptyTable, PracticeLaps, FALSE, EmptyTable),
    \* a classified position is missing: int(row['Position']) raises
    BadResults |-> SessionHandle(
        Table(ResultCols, Append(SprintResults.rows,
              ResultRow(NaN, "STR", "Lance Stroll", "Aston Martin", Num(18), Num(9), "Retired"))),
        TRUE, SprintTrackStatus, SprintLaps, TRUE, SprintMessages),
    \* the track-status log has no Status column: track_status['Status'] raises
    BadTrack |-> SessionHandle(SprintResults, TRUE,
        Table({"Time"}, << [Time |-> Num(12)] >>), SprintLaps, TRUE, SprintMessages),
    \* a timed lap without a lap number: int(row['LapNumber']) raises in fastest laps
    BadLaps |-> SessionHandle(SprintResults, TRUE, SprintTrackStatus,
        Table(LapCols, Append(SprintLaps.rows, LapRow("GAS", "Alpine", NaN, Num(84), NaN, NaN))),
        TRUE, SprintMessages),
    \* an untimed in-lap without a lap number: int(row['LapNumber']) raises in pit stops
    BadPits |-> SessionHandle(SprintResults, TRUE, SprintTrackStatus,
        Table(LapCols, Append(SprintLaps.rows, LapRow("GAS", "Alpine", NaN, NaN, Num(60), Num(82)))),
        TRUE, SprintMessages),
    \* the race-control log has no Message column: row['Message'] raises
    BadMessages |-> SessionHandle(SprintResults, TRUE, SprintTrackStatus, SprintLaps, TRUE,
        Table({"Time"}, << [Time |-> Num(12)] >>)) ]

SessionIds == DOMAIN Sessions

\* Event names a client can post.  'Atlantis' is no event of the calendar;
\* every other event names one session of the collaborator.
UnknownEvent == "Atlantis"
Events == SessionIds \cup {UnknownEvent}
\* the session the process loads at startup (2024 'Abu Dhabi' 'R')
DefaultEvent == "Race"

\* Outcomes of the collaborator calls of load_session: get_session raises
\* (always, for an unknown event), session.load raises (network, parse
\* error), or the loaded handle is returned.
CollaboratorOutcomes(ev) ==
  IF ev \in SessionIds THEN {"get_session raises", "load raises", "loaded"}
  ELSE {"get_session raises"}

\* a reference to a loaded session object
Handle(s) == [id |-> s]

(***************************************************************************)
(* The five extractions of update_session_data, as functions of a session  *)
(* handle.  Each yields Ok(list) or Raised when the comprehension raises,  *)
(* in which case nothing is assigned.                                      *)
(***************************************************************************)
Ok(v) == [ok |-> TRUE, val |-> v]
Raised == [ok |-> FALSE, val |-> << >>]

\* [f(row) for _, row in table.iterrows()]
MapRows(rows, f(_)) == [i \in 1..Len(rows) |-> f(rows[i])]

\* DataFrame.head(n)
Head_(rows, n) == SubSeq(rows, 1, Min(n, Len(rows)))

\* DataFrame.sort_values('LapTime'): ascending, equal keys keep their order
RECURSIVE InsertByLapTime(_, _)
InsertByLapTime(sorted, row) ==
  IF sorted = << >> THEN << row >>
  ELSE IF TotalSeconds(sorted[Len(sorted)].LapTime) <= TotalSeconds(row.LapTime)
       THEN Append(sorted, row)
       ELSE Append(InsertByLapTime(SubSeq(sorted, 1, Len(sorted) - 1), row), sorted[Len(sorted)])

RECURSIVE SortByLapTime(_)
SortByLapTime(rows) ==
  IF rows = << >> THEN << >>
  ELSE InsertByLapTime(SortByLapTime(SubSeq(rows, 1, Len(rows) - 1)), rows[Len(rows)])

DriverResult(cols, row) ==
  [position |-> PyInt(row.Position),
   driver |-> row.Abbreviation,
   full_name |-> row.FullName,
   team |-> row.TeamName,
   number |-> PyInt(row.DriverNumber),
   grid_position |-> IF "GridPosition" \in cols THEN [int |-> PyInt(row.GridPosition)] ELSE None,
   status |-> row.Status]

ExtractPositions(s) ==
  LET results == Sessions[s].results
      Bad(row) == \/ IntRaises(row.Position)
                  \/ IntRaises(row.DriverNumber)
                  \/ ("GridPosition" \in results.cols /\ IntRaises(row.GridPosition))
      Conv(row) == DriverResult(results.cols, row)
  IN  IF ~({"Position", "Abbreviation", "FullName", "TeamName", "DriverNumber", "Status"}
              \subseteq results.cols)
        THEN Raised
      ELSE IF \E i \in 1..Len(results.rows) : Bad(results.rows[i])
        THEN Raised
      ELSE Ok(MapRows(results.rows, Conv))

\* status_names.get(code, 'Unknown')
status_names(code) ==
  CASE code = "1" -> "Green Flag"
    [] code = "2" -> "Yellow Flag"
    [] code = "4" -> "Safety Car"
    [] code = "5" -> "Red Flag"
    [] code = "6" -> "Virtual Safety Car"
    [] code = "7" -> "VSC Ending"
    [] OTHER -> "Unknown"

TrackStatusEvent(row) ==
  [time |-> PyStr(row.Time), status |-> status_names(row.Status), status_code |-> row.Status]

\* ExtractTrackStatus keeping the green-flag rows
ExtractTrackStatus_NoFilter(s) ==
  LET track_status == Sessions[s].track_status
  IN  IF ~({"Status", "Time"} \subseteq track_status.cols)
        THEN Raised
      ELSE Ok(MapRows(track_status.rows, TrackStatusEvent))

ExtractTrackStatus(s) ==
  LET track_status == Sessions[s].track_status
      NotGreen(row) == row.Status # "1"
  IN  IF ~({"Status", "Time"} \subseteq track_status.cols)
        THEN Raised
      ELSE Ok(MapRows(SelectSeq(track_status.rows, NotGreen), TrackStatusEvent))

LapRecord(row) ==
  [driver |-> row.Driver,
   team |-> row.Team,
   lap_number |-> PyInt(row.LapNumber),
   lap_time |-> PyStr(row.LapTime),
   lap_time_seconds |-> TotalSeconds(row.LapTime)]

\* FastestRows taking the first ten timed laps before sorting them
FastestRows_HeadFirst(laps) ==
  LET Timed(row) == NotNa(row.LapTime)
  IN  SortByLapTime(Head_(SelectSeq(laps.rows, Timed), 10))

\* laps.loc[laps['LapTime'].notna()].sort_values('LapTime').head(10)
FastestRows(laps) ==
  LET Timed(row) == NotNa(row.LapTime)
  IN  Head_(SortByLapTime(SelectSeq(laps.rows, Timed)), 10)

ExtractFastestLaps(s) ==
  LET laps == Sessions[s].laps
      fastest == FastestRows(laps)
  IN  IF ~({"Driver", "Team", "LapNumber", "LapTime"} \subseteq laps.cols)
        THEN Raised
      ELSE IF \E i \in 1..Len(fastest) : IntRaises(fastest[i].LapNumber)
        THEN Raised
      ELSE Ok(MapRows(fastest, LapRecord))

PitStopRecord(cols, row) ==
  [driver |-> row.Driver,
   team |-> row.Team,
   lap_number |-> PyInt(row.LapNumber),
   pit_duration |-> IF "PitOutTime" \in cols
                      THEN PyStr(TdSub(row.PitOutTime, row.PitInTime)) ELSE None]

ExtractPitStops(s) ==
  LET laps == Sessions[s].laps
      InLap(row) == NotNa(row.PitInTime)
      pit_stops == IF "PitInTime" \in laps.cols THEN SelectSeq(laps.rows, InLap) ELSE << >>
      Conv(row) == PitStopRecord(laps.cols, row)
  IN  IF ~({"Driver", "Team", "LapNumber", "PitInTime"} \subseteq laps.cols)
        THEN Raised
      ELSE IF \E i \in 1..Len(pit_stops) : IntRaises(pit_stops[i].LapNumber)
        THEN Raised
      ELSE Ok(MapRows(pit_stops, Conv))

Message(cols, row) ==
  [time |-> PyStr(row.Time),
   message |-> row.Message,
   category |-> IF "Category" \in cols THEN row.Category ELSE "Other"]

ExtractMessages(s) ==
  LET messages == Sessions[s].race_control_messages
      Conv(row) == Message(messages.cols, row)
  IN  IF ~({"Time", "Message"} \subseteq messages.cols)
        THEN Raised
      ELSE Ok(MapRows(messages.rows, Conv))

(***************************************************************************)
(* State.                                                                  *)
(***************************************************************************)
VARIABLES
  current_session,  \* the global handle: None or Handle(s)
  session_data,     \* the global snapshot dict
  clock,            \* number of datetime.now() readings so far
  booted,           \* app.run has been reached: requests are being served
  pc,               \* per thread: the statement it is about to execute
  req,              \* per thread: the request (or startup call) being served
  session,          \* per thread: load_session's local variable session
  laps,             \* per thread: update_session_data's local variable laps
  err,              \* per thread: the diagnostic the handler has printed
  success,          \* per thread: load_session_endpoint's local variable success
  resp,             \* per thread: the HTTP response the handler returned
  pre,              \* per thread: the global state when its POST handler began
  origin,           \* history: the handle each snapshot list was extracted from
  got,              \* the GET exchange of the latest step, None if it served no GET
  posts,            \* number of POST requests accepted so far
  loads             \* history: how many load_session calls returned True, and False,
                    \* and what the latest one returned

vars == << current_session, session_data, clock, booted, pc, req, session, laps,
           err, success, resp, pre, origin, got, posts, loads >>

Lists == {"positions", "track_status", "fastest_laps", "pit_stops", "race_control_messages"}

EmptySnapshot ==
  [positions |-> << >>, track_status |-> << >>, fastest_laps |-> << >>, pit_stops |-> << >>,
   race_control_messages |-> << >>, last_update |-> None, is_live |-> FALSE]

NoRequest == [kind |-> "none"]
NoError == "none"

Init ==
  /\ current_session = None
  /\ session_data = EmptySnapshot
  /\ clock = 0
  /\ booted = FALSE
  /\ pc = [t \in Threads |-> IF t = 1 THEN "load_call" ELSE "idle"]
  /\ req = [t \in Threads |-> IF t = 1 THEN [kind |-> "startup", event |-> DefaultEvent]
                                       ELSE NoRequest]
  /\ session = [t \in Threads |-> None]
  /\ laps = [t \in Threads |-> None]
  /\ err = [t \in Threads |-> NoError]
  /\ success = [t \in Threads |-> FALSE]
  /\ resp = [t \in Threads |-> None]
  /\ pre = [t \in Threads |-> IF t = 1 THEN [current_session |-> None, session_data |-> EmptySnapshot]
                                       ELSE None]
  /\ origin = [f \in Lists |-> None]
  /\ got = None
  /\ posts = 0
  /\ loads = [succeeded |-> 0, failed |-> 0, last |-> "none"]

(***************************************************************************)
(* HTTP layer: responses and the GET handlers, as functions of the globals *)
(***************************************************************************)
Json(status, body) == [status |-> status, body |-> body]

\* seq[:n] of Python: a negative n counts from the end
PySlice(seq, n) ==
  IF n >= 0 THEN SubSeq(seq, 1, Min(n, Len(seq)))
  ELSE SubSeq(seq, 1, IF Len(seq) + n > 0 THEN Len(seq) + n ELSE 0)

\* values of the limit query parameter that clients send; None: no parameter
LimitValues == {-1, 0, 2, 11}
QueryLimits == {None} \cup {[int |-> n] : n \in LimitValues}

\* request.args.get('limit', default, type=int)
LimitArg(q, default) == IF q = None THEN default ELSE q.int

home ==
  Json(200, [message |-> "FastF1 Live Timing API", version |-> "1.0"])

get_positions(sd) ==
  Json(200, [success |-> TRUE, data |-> sd.positions, last_update |-> sd.last_update])

\* get_top3 slicing one entry short
get_top3_Short(sd) ==
  LET top3 == IF Len(sd.positions) >= 3 THEN PySlice(sd.positions, 2) ELSE sd.positions
  IN  Json(200, [success |-> TRUE, data |-> top3, last_update |-> sd.last_update])

get_top3(sd) ==
  LET top3 == IF Len(sd.positions) >= 3 THEN PySlice(sd.positions, 3) ELSE sd.positions
  IN  Json(200, [success |-> TRUE, data |-> top3, last_update |-> sd.last_update])

get_track_status(sd) ==
  Json(200, [success |-> TRUE, data |-> sd.track_status, last_update |-> sd.last_update])

get_fastest_laps(sd, q) ==
  LET limit == LimitArg(q, 5)
  IN  Json(200, [success |-> TRUE, data |-> PySlice(sd.fastest_laps, limit),
                 last_update |-> sd.last_update])

get_pit_stops(sd) ==
  Json(200, [success |-> TRUE, data |-> sd.pit_stops, last_update |-> sd.last_update])

get_race_control(sd, q) ==
  LET limit == LimitArg(q, 10)
  IN  Json(200, [success |-> TRUE, data |-> PySlice(sd.race_control_messages, limit),
                 last_update |-> sd.last_update])

get_full_data(sd) ==
  Json(200, [success |-> TRUE, data |-> sd, last_update |-> sd.last_update])

get_status(cs, sd) ==
  Json(200, [success |-> TRUE, status |-> "running", session_loaded |-> (cs # None),
             last_update |-> sd.last_update, is_live |-> sd.is_live])

GetEndpoints == {"/", "/api/positions", "/api/top3", "/api/track-status", "/api/fastest-laps",
                 "/api/pit-stops", "/api/race-control", "/api/full-data", "/api/status"}

\* the response of GET e (with limit parameter q) when the globals are cs, sd
Reply(e, q, cs, sd) ==
  CASE e = "/" -> home
    [] e = "/api/positions" -> get_positions(sd)
    [] e = "/api/top3" -> get_top3(sd)
    [] e = "/api/track-status" -> get_track_status(sd)
    [] e = "/api/fastest-laps" -> get_fastest_laps(sd, q)
    [] e = "/api/pit-stops" -> get_pit_stops(sd)
    [] e = "/api/race-control" -> get_race_control(sd, q)
    [] e = "/api/full-data" -> get_full_data(sd)
    [] e = "/api/status" -> get_status(cs, sd)

\* the GET requests clients send: the limit parameter only where it is read
GetRequests ==
  {[endpoint |-> e, limit |-> None] : e \in GetEndpoints}
    \cup {[endpoint |-> e, limit |-> q] : e \in {"/api/fastest-laps", "/api/race-control"},
                                          q \in QueryLimits}

(***************************************************************************)
(* Actions.  A thread executes one statement per step; every read of the   *)
(* globals current_session and session_data happens at the step that       *)
(* executes the statement reading them.                                    *)
(***************************************************************************)
Snapshot == [current_session |-> current_session, session_data |-> session_data]

\* request.json of POST /api/session/load: data.get('event', 'Abu Dhabi')
EventOf(body) == IF body = None THEN DefaultEvent ELSE body.event
LoadBodies == {None} \cup {[event |-> ev] : ev \in Events}

\* thread-per-request: a request is served by a thread that serves no other
\* request; which one is immaterial, so it is the first free one
Free(t) == pc[t] = "idle" /\ \A u \in Threads : u < t => pc[u] # "idle"

\* the globals as a handler finds them when it begins; recorded for a handler
\* that begins while no other handler is running
Quiet == \A t \in Threads : pc[t] = "idle"
Entry == IF Quiet THEN Snapshot ELSE None

\* load_session_endpoint is entered: lines 163-168, up to the call of load_session
StartLoad(t, body) ==
  /\ booted
  /\ Free(t)
  /\ posts < MaxPosts
  /\ posts' = posts + 1
  /\ req' = [req EXCEPT ![t] = [kind |-> "load", event |-> EventOf(body)]]
  /\ pre' = [pre EXCEPT ![t] = Entry]
  /\ pc' = [pc EXCEPT ![t] = "load_call"]
  /\ UNCHANGED << current_session, session_data, clock, booted, session, laps, err,
                  success, resp, origin, loads >>
  /\ got' = None

\* LoadCall with the handle stored in the global before session.load() has
\* succeeded
LoadCall_AssignsEarly(t) ==
  /\ pc[t] = "load_call"
  /\ \E outcome \in CollaboratorOutcomes(req[t].event) :
       /\ IF outcome = "loaded"
            THEN /\ session' = [session EXCEPT ![t] = Handle(req[t].event)]
                 /\ pc' = [pc EXCEPT ![t] = "load_assign"]
                 /\ err' = err
            ELSE /\ err' = [err EXCEPT ![t] = outcome]
                 /\ pc' = [pc EXCEPT ![t] = "load_except"]
                 /\ session' = session
       /\ current_session' = IF outcome = "load raises" THEN Handle(req[t].event)
                                                        ELSE current_session
  /\ UNCHANGED << session_data, clock, booted, req, laps, success,
                  resp, pre, origin, posts, loads >>
  /\ got' = None

\* lines 38-39: session = fastf1.get_session(...); session.load()
LoadCall(t) ==
  /\ pc[t] = "load_call"
  /\ \E outcome \in CollaboratorOutcomes(req[t].event) :
       IF outcome = "loaded"
         THEN /\ session' = [session EXCEPT ![t] = Handle(req[t].event)]
              /\ pc' = [pc EXCEPT ![t] = "load_assign"]
              /\ err' = err
         ELSE /\ err' = [err EXCEPT ![t] = outcome]
              /\ pc' = [pc EXCEPT ![t] = "load_except"]
              /\ session' = session
  /\ UNCHANGED << current_session, session_data, clock, booted, req, laps, success,
                  resp, pre, origin, posts, loads >>
  /\ got' = None

\* line 40: current_session = session; line 43 calls update_session_data
LoadAssign(t) ==
  /\ pc[t] = "load_assign"
  /\ current_session' = session[t]
  /\ pc' = [pc EXCEPT ![t] = "update_check"]
  /\ UNCHANGED << session_data, clock, booted, req, session, laps, err, success,
                  resp, pre, origin, posts, loads >>
  /\ got' = None

\* where load_session's caller continues: the endpoint, or the main program
AfterLoad(kind) == IF kind = "startup" THEN "main" ELSE "load_respond"

\* LoadExcept dropping the handle when a load fails
LoadExcept_ClearsHandle(t) ==
  /\ pc[t] = "load_except"
  /\ loads' = [loads EXCEPT !.failed = @ + 1, !.last = "failed"]
  /\ success' = [success EXCEPT ![t] = FALSE]
  /\ current_session' = None
  /\ pc' = [pc EXCEPT ![t] = AfterLoad(req[t].kind)]
  /\ UNCHANGED << session_data, clock, booted, req, session, laps,
                  err, resp, pre, origin, posts >>
  /\ got' = None

\* lines 45-47: except Exception: print; return False
LoadExcept(t) ==
  /\ pc[t] = "load_except"
  /\ loads' = [loads EXCEPT !.failed = @ + 1, !.last = "failed"]
  /\ success' = [success EXCEPT ![t] = FALSE]
  /\ pc' = [pc EXCEPT ![t] = AfterLoad(req[t].kind)]
  /\ UNCHANGED << current_session, session_data, clock, booted, req, session, laps,
                  err, resp, pre, origin, posts >>
  /\ got' = None

\* LoadReturn with the outcome of the extraction pass as load_session's result
LoadReturn_ReportsExtraction(t) ==
  /\ pc[t] = "load_return"
  /\ loads' = [loads EXCEPT !.succeeded = @ + 1, !.last = "succeeded"]
  /\ success' = [success EXCEPT ![t] = (err[t] = NoError)]
  /\ pc' = [pc EXCEPT ![t] = AfterLoad(req[t].kind)]
  /\ UNCHANGED << current_session, session_data, clock, booted, req, session, laps,
                  err, resp, pre, origin, posts >>
  /\ got' = None

\* line 44: return True
LoadReturn(t) ==
  /\ pc[t] = "load_return"
  /\ loads' = [loads EXCEPT !.succeeded = @ + 1, !.last = "succeeded"]
  /\ success' = [success EXCEPT ![t] = TRUE]
  /\ pc' = [pc EXCEPT ![t] = AfterLoad(req[t].kind)]
  /\ UNCHANGED << current_session, session_data, clock, booted, req, session, laps,
                  err, resp, pre, origin, posts >>
  /\ got' = None

\* lines 170-180: the response of POST /api/session/load
LoadRespond(t) ==
  /\ pc[t] = "load_respond"
  /\ resp' = [resp EXCEPT ![t] =
       IF success[t]
         THEN Json(200, [success |-> TRUE, message |-> "Session loaded", data |-> session_data])
         ELSE Json(500, [success |-> FALSE, message |-> "Failed to load session"])]
  /\ pc' = [pc EXCEPT ![t] = "done"]
  /\ UNCHANGED << current_session, session_data, clock, booted, req, session, laps,
                  err, success, pre, origin, posts, loads >>
  /\ got' = None

\* line 284 has returned; app.run starts serving requests
ServerStart(t) ==
  /\ pc[t] = "main"
  /\ booted' = TRUE
  /\ pc' = [pc EXCEPT ![t] = "idle"]
  /\ req' = [req EXCEPT ![t] = NoRequest]
  /\ session' = [session EXCEPT ![t] = None]
  /\ laps' = [laps EXCEPT ![t] = None]
  /\ err' = [err EXCEPT ![t] = NoError]
  /\ success' = [success EXCEPT ![t] = FALSE]
  /\ pre' = [pre EXCEPT ![t] = None]
  /\ UNCHANGED << current_session, session_data, clock, resp, origin, posts, loads >>
  /\ got' = None

\* where update_session_data's caller continues after it returns
AfterUpdate(kind) == IF kind = "refresh" THEN "refresh_respond" ELSE "load_return"

\* OnUpdateRaise without the except clause: the exception reaches the caller,
\* load_session's own except clause or Flask
OnUpdateRaise_Uncaught(kind) == IF kind = "refresh" THEN "unhandled" ELSE "load_except"

\* where control goes when a statement of update_session_data's try block
\* raises: its own except clause (line 136)
OnUpdateRaise(kind) == "update_except"

\* lines 53-54: if current_session is None: return
UpdateCheck(t) ==
  /\ pc[t] = "update_check"
  /\ pc' = [pc EXCEPT ![t] = IF current_session = None THEN AfterUpdate(req[t].kind)
                                                         ELSE "update_positions"]
  /\ UNCHANGED << current_session, session_data, clock, booted, req, session, laps,
                  err, success, resp, pre, origin, posts, loads >>
  /\ got' = None

\* a statement of the try block raised: the exception is in flight
Raise(t, step) ==
  /\ err' = [err EXCEPT ![t] = step]
  /\ pc' = [pc EXCEPT ![t] = OnUpdateRaise(req[t].kind)]
  /\ UNCHANGED << session_data, origin >>

\* Assign extending the list in place instead of replacing it
Assign_Appends(t, field, value, h, next) ==
  /\ session_data' = [session_data EXCEPT ![field] = @ \o value]
  /\ origin' = [origin EXCEPT ![field] = h]
  /\ pc' = [pc EXCEPT ![t] = next]
  /\ err' = err

\* session_data[field] = value, extracted from handle h
Assign(t, field, value, h, next) ==
  /\ session_data' = [session_data EXCEPT ![field] = value]
  /\ origin' = [origin EXCEPT ![field] = h]
  /\ pc' = [pc EXCEPT ![t] = next]
  /\ err' = err

\* lines 58-70
UpdatePositions(t) ==
  /\ pc[t] = "update_positions"
  /\ LET r == ExtractPositions(current_session.id)
     IN  IF r.ok THEN Assign(t, "positions", r.val, current_session, "update_track_status")
                 ELSE Raise(t, "positions")
  /\ UNCHANGED << current_session, clock, booted, req, session, laps, success, resp,
                  pre, posts, loads >>
  /\ got' = None

\* lines 73-93
UpdateTrackStatus(t) ==
  /\ pc[t] = "update_track_status"
  /\ IF Sessions[current_session.id].has_track_status
       THEN LET r == ExtractTrackStatus(current_session.id)
            IN  IF r.ok THEN Assign(t, "track_status", r.val, current_session, "update_fastest_laps")
                        ELSE Raise(t, "track_status")
       ELSE /\ pc' = [pc EXCEPT ![t] = "update_fastest_laps"]
            /\ UNCHANGED << session_data, origin, err >>
  /\ UNCHANGED << current_session, clock, booted, req, session, laps, success, resp,
                  pre, posts, loads >>
  /\ got' = None

\* lines 96-108: laps = current_session.laps, then the fastest laps
UpdateFastestLaps(t) ==
  /\ pc[t] = "update_fastest_laps"
  /\ laps' = [laps EXCEPT ![t] = current_session]
  /\ LET r == ExtractFastestLaps(current_session.id)
     IN  IF r.ok THEN Assign(t, "fastest_laps", r.val, current_session, "update_pit_stops")
                 ELSE Raise(t, "fastest_laps")
  /\ UNCHANGED << current_session, clock, booted, req, session, success, resp,
                  pre, posts, loads >>
  /\ got' = None

\* lines 111-120: the pit stops, from the local variable laps
UpdatePitStops(t) ==
  /\ pc[t] = "update_pit_stops"
  /\ LET r == ExtractPitStops(laps[t].id)
     IN  IF r.ok THEN Assign(t, "pit_stops", r.val, laps[t], "update_messages")
                 ELSE Raise(t, "pit_stops")
  /\ UNCHANGED << current_session, clock, booted, req, session, laps, success, resp,
                  pre, posts, loads >>
  /\ got' = None

\* lines 123-132
UpdateMessages(t) ==
  /\ pc[t] = "update_messages"
  /\ IF Sessions[current_session.id].has_race_control_messages
       THEN LET r == ExtractMessages(current_session.id)
            IN  IF r.ok THEN Assign(t, "race_control_messages", r.val, current_session, "update_stamp")
                        ELSE Raise(t, "race_control_messages")
       ELSE /\ pc' = [pc EXCEPT ![t] = "update_stamp"]
            /\ UNCHANGED << session_data, origin, err >>
  /\ UNCHANGED << current_session, clock, booted, req, session, laps, success, resp,
                  pre, posts, loads >>
  /\ got' = None

\* UpdateStamp marking the snapshot live once a pass has completed
UpdateStamp_SetsLive(t) ==
  /\ pc[t] = "update_stamp"
  /\ clock' = clock + 1
  /\ session_data' = [session_data EXCEPT !.last_update = IsoFormat(clock + 1), !.is_live = TRUE]
  /\ pc' = [pc EXCEPT ![t] = AfterUpdate(req[t].kind)]
  /\ UNCHANGED << current_session, booted, req, session, laps, err, success, resp,
                  pre, origin, posts, loads >>
  /\ got' = None

\* line 134: session_data['last_update'] = datetime.now().isoformat()
UpdateStamp(t) ==
  /\ pc[t] = "update_stamp"
  /\ clock' = clock + 1
  /\ session_data' = [session_data EXCEPT !.last_update = IsoFormat(clock + 1)]
  /\ pc' = [pc EXCEPT ![t] = AfterUpdate(req[t].kind)]
  /\ UNCHANGED << current_session, booted, req, session, laps, err, success, resp,
                  pre, origin, posts, loads >>
  /\ got' = None

\* lines 136-137: except Exception: print; the function returns
UpdateExcept(t) ==
  /\ pc[t] = "update_except"
  /\ pc' = [pc EXCEPT ![t] = AfterUpdate(req[t].kind)]
  /\ UNCHANGED << current_session, session_data, clock, booted, req, session, laps,
                  err, success, resp, pre, origin, posts, loads >>
  /\ got' = None

\* refresh_data is entered; the request records whether a session was loaded
\* when it arrived
StartRefresh(t) ==
  /\ booted
  /\ Free(t)
  /\ posts < MaxPosts
  /\ posts' = posts + 1
  /\ req' = [req EXCEPT ![t] = [kind |-> "refresh", session_loaded |-> current_session # None]]
  /\ pre' = [pre EXCEPT ![t] = Entry]
  /\ pc' = [pc EXCEPT ![t] = "refresh_check"]
  /\ UNCHANGED << current_session, session_data, clock, booted, session, laps, err,
                  success, resp, origin, loads >>
  /\ got' = None

\* RefreshCheck without the test of current_session
RefreshCheck_NoGuard(t) ==
  /\ pc[t] = "refresh_check"
  /\ resp' = resp
  /\ pc' = [pc EXCEPT ![t] = "update_check"]
  /\ UNCHANGED << current_session, session_data, clock, booted, req, session, laps,
                  err, success, pre, origin, posts, loads >>
  /\ got' = None

\* lines 262-268: 400 if no session is loaded, else call update_session_data
RefreshCheck(t) ==
  /\ pc[t] = "refresh_check"
  /\ IF current_session = None
       THEN /\ resp' = [resp EXCEPT ![t] =
                 Json(400, [success |-> FALSE, message |-> "No session loaded"])]
            /\ pc' = [pc EXCEPT ![t] = "done"]
       ELSE /\ resp' = resp
            /\ pc' = [pc EXCEPT ![t] = "update_check"]
  /\ UNCHANGED << current_session, session_data, clock, booted, req, session, laps,
                  err, success, pre, origin, posts, loads >>
  /\ got' = None

\* lines 269-273: the response of POST /api/refresh
RefreshRespond(t) ==
  /\ pc[t] = "refresh_respond"
  /\ resp' = [resp EXCEPT ![t] =
       Json(200, [success |-> TRUE, message |-> "Data refreshed",
                  last_update |-> session_data.last_update])]
  /\ pc' = [pc EXCEPT ![t] = "done"]
  /\ UNCHANGED << current_session, session_data, clock, booted, req, session, laps,
                  err, success, pre, origin, posts, loads >>
  /\ got' = None

\* an exception that no handler caught reaches Flask: 500 Internal Server Error
Unhandled(t) == pc[t] = "unhandled"

\* the response has been sent; the thread is free for the next request
Respond(t) ==
  /\ pc[t] \in {"done", "unhandled"}
  /\ pc' = [pc EXCEPT ![t] = "idle"]
  /\ req' = [req EXCEPT ![t] = NoRequest]
  /\ session' = [session EXCEPT ![t] = None]
  /\ laps' = [laps EXCEPT ![t] = None]
  /\ err' = [err EXCEPT ![t] = NoError]
  /\ success' = [success EXCEPT ![t] = FALSE]
  /\ resp' = [resp EXCEPT ![t] = None]
  /\ pre' = [pre EXCEPT ![t] = None]
  /\ UNCHANGED << current_session, session_data, clock, booted, origin, posts, loads >>
  /\ got' = None

\* Get with /api/top3 truncating the shared positions list in place
Get_TruncatesPositions(t, r) ==
  /\ booted
  /\ Free(t)
  /\ got' = [request |-> r, response |-> Reply(r.endpoint, r.limit, current_session, session_data)]
  /\ session_data' = IF r.endpoint = "/api/top3"
                       THEN [session_data EXCEPT !.positions = PySlice(@, 3)]
                       ELSE session_data
  /\ UNCHANGED << current_session, clock, booted, pc, req, session, laps,
                  err, success, resp, pre, origin, posts, loads >>

\* a GET handler, lines 141-158 and 182-257
Get(t, r) ==
  /\ booted
  /\ Free(t)
  /\ got' = [request |-> r, response |-> Reply(r.endpoint, r.limit, current_session, session_data)]
  /\ UNCHANGED << current_session, session_data, clock, booted, pc, req, session, laps,
                  err, success, resp, pre, origin, posts, loads >>

Step(t) ==
  \/ LoadCall(t)
  \/ LoadAssign(t)
  \/ LoadExcept(t)
  \/ LoadReturn(t)
  \/ LoadRespond(t)
  \/ ServerStart(t)
  \/ UpdateCheck(t)
  \/ UpdatePositions(t)
  \/ UpdateTrackStatus(t)
  \/ UpdateFastestLaps(t)
  \/ UpdatePitStops(t)
  \/ UpdateMessages(t)
  \/ UpdateStamp(t)
  \/ UpdateExcept(t)
  \/ RefreshCheck(t)
  \/ RefreshRespond(t)
  \/ Respond(t)

\* Every other GET response is a projection of these two, so they are the
\* reads that run while other handlers are in progress.
WholeReads == {r \in GetRequests : r.endpoint \in {"/api/full-data", "/api/status"}}

\* thread-per-request: handlers interleave freely
Next ==
  \/ \E t \in Threads : \E body \in LoadBodies : StartLoad(t, body)
  \/ \E t \in Threads : StartRefresh(t)
  \/ \E t \in Threads : \E r \in (IF Quiet THEN GetRequests ELSE WholeReads) : Get(t, r)
  \/ \E t \in Threads : Step(t)

Spec == Init /\ [][Next]_vars

\* one request at a time: a request is accepted only when no handler is running
SeqNext ==
  \/ \E t \in Threads : \E body \in LoadBodies : Quiet /\ StartLoad(t, body)
  \/ \E t \in Threads : Quiet /\ StartRefresh(t)
  \/ \E t \in Threads : \E r \in GetRequests : Quiet /\ Get(t, r)
  \/ \E t \in Threads : Step(t)

SeqSpec == Init /\ [][SeqNext]_vars

(***************************************************************************)
(* Properties.                                                             *)
(***************************************************************************)
CollaboratorFailures == {"get_session raises", "load raises"}

\* the order in which update_session_data extracts the categories
Order == << "positions", "track_status", "fastest_laps", "pit_stops", "race_control_messages" >>
Index(f) == CHOOSE i \in 1..Len(Order) : Order[i] = f

Extract(f, s) ==
  CASE f = "positions" -> ExtractPositions(s)
    [] f = "track_status" -> ExtractTrackStatus(s)
    [] f = "fastest_laps" -> ExtractFastestLaps(s)
    [] f = "pit_stops" -> ExtractPitStops(s)
    [] f = "race_control_messages" -> ExtractMessages(s)

\* the categories whose data is absent from session s, or malformed
Absent(s) ==
  {f \in {"track_status"} : ~Sessions[s].has_track_status}
    \cup {f \in {"race_control_messages"} : ~Sessions[s].has_race_control_messages}
Degraded(s) == Absent(s) \cup {f \in Lists \ Absent(s) : ~Extract(f, s).ok}

\* thread t serves a load (request or startup) whose collaborator call failed
LoadFailed(t) == req[t].kind \in {"load", "startup"} /\ err[t] \in CollaboratorFailures

\* C1: a load whose collaborator call raises propagates no exception (control
\* stays in load_session's except clause and the endpoint), returns False,
\* leaves the handle and every snapshot field as they were when the call
\* began, is answered with HTTP 500 and success:false, and every GET request
\* gets the response it would have got before the load.
C1_FailedLoadLeavesState ==
  \A t \in Threads :
    LoadFailed(t) =>
      /\ pc[t] \in {"load_except", "load_respond", "main", "done"}
      /\ Snapshot = pre[t]
      /\ (pc[t] \in {"load_respond", "main", "done"} => ~success[t])
      /\ (pc[t] = "done" => resp[t].status = 500 /\ resp[t].body.success = FALSE)
      /\ \A r \in GetRequests :
           Reply(r.endpoint, r.limit, current_session, session_data)
             = Reply(r.endpoint, r.limit, pre[t].current_session, pre[t].session_data)

C1_Witness ==
  \E t \in Threads :
    /\ LoadFailed(t) /\ pc[t] = "done" /\ resp[t].status = 500
    /\ current_session # None
    /\ session_data.positions # << >>
    /\ session_data.last_update # None

\* C2: after every load that returned True, last_update is non-null and
\* positions has as many entries as the loaded session's results table.
C2_SuccessfulLoadIsComplete ==
  \A t \in Threads :
    (req[t].kind \in {"load", "startup"} /\ pc[t] \in {"load_respond", "main", "done"}
       /\ success[t]) =>
      /\ session_data.last_update # None
      /\ Len(session_data.positions) = Len(Sessions[req[t].event].results.rows)

\* C3: whenever a GET handler can run, the handle and all five lists belong
\* to one and the same session.
C3_AtomicReplace ==
  (booted /\ \E t \in Threads : Free(t)) =>
    \A f \in Lists : origin[f] = current_session

\* C4: when an extraction pass is over, every category that is neither absent
\* nor malformed in the current session has been updated from it, and each
\* absent or malformed category holds its previous value or the empty list.
C4_IndependentGuards ==
  \A t \in Threads :
    pc[t] \in {"load_return", "refresh_respond"} =>
      /\ \A g \in Lists \ Degraded(current_session.id) : origin[g] = current_session
      /\ \A f \in Degraded(current_session.id) :
           session_data[f] = pre[t].session_data[f] \/ session_data[f] = << >>

\* C5: when a statement of the extraction pass raises at category f, the pass
\* stops there (f and the categories after it keep their values), last_update
\* keeps the value it had before the pass, and no exception reaches the
\* caller: load_session goes on to return True and the endpoint answers 200.
C5_AbortKeepsStamp ==
  \A t \in Threads :
    err[t] \in Lists =>
      /\ pc[t] \in {"update_except", "load_return", "refresh_respond", "load_respond",
                    "main", "done"}
      /\ session_data.last_update = pre[t].session_data.last_update
      /\ \A g \in Lists :
           Index(g) >= Index(err[t]) => session_data[g] = pre[t].session_data[g]
      /\ (pc[t] \in {"load_respond", "main"} => success[t])
      /\ (pc[t] = "done" => resp[t].status = 200)

C5_Witness ==
  \E t \in Threads :
    /\ pc[t] = "done" /\ err[t] = "race_control_messages"
    /\ session_data.last_update # None
    /\ session_data.positions # pre[t].session_data.positions
    /\ session_data.pit_stops # pre[t].session_data.pit_stops

\* C6: Flask never sees an exception, a load whose collaborator call succeeded
\* is answered 200 with success:true, and a refresh that arrived when a session
\* was loaded is answered 200 with success:true, whether or not the extraction
\* pass they ran was aborted.
C6_ExtractionFailureNotSurfaced ==
  \A t \in Threads :
    /\ ~Unhandled(t)
    /\ (pc[t] = "done" /\ req[t].kind = "load" /\ session[t] # None) =>
         (resp[t].status = 200 /\ resp[t].body.success)
    /\ (pc[t] = "done" /\ req[t].kind = "refresh") =>
         (req[t].session_loaded => resp[t].status = 200 /\ resp[t].body.success)

C6_Witness ==
  \E t \in Threads :
    /\ pc[t] = "done" /\ req[t].kind = "refresh" /\ err[t] \in Lists
    /\ resp[t].status = 200

\* C7: while no load_session call has returned True, a refresh never enters
\* the extraction pass, is answered 400 with success:false, and leaves the
\* snapshot and the absent handle as they were.
C7_RefreshWithoutSession ==
  \A t \in Threads :
    (req[t].kind = "refresh" /\ loads.succeeded = 0) =>
      /\ pc[t] \in {"refresh_check", "done"}
      /\ current_session = None
      /\ Snapshot = pre[t]
      /\ (pc[t] = "done" => resp[t].status = 400 /\ resp[t].body.success = FALSE)

C7_Witness ==
  \E t \in Threads :
    /\ pc[t] = "done" /\ req[t].kind = "refresh" /\ resp[t].status = 400
    /\ loads.succeeded = 0 /\ loads.failed >= 2

\* C8: a step that serves a GET request leaves the snapshot and the handle
\* unchanged.
C8_GetsLeaveStateUnchanged ==
  [][got' # None => UNCHANGED << current_session, session_data >>]_vars

C8_Witness ==
  /\ got # None
  /\ got.request = [endpoint |-> "/api/fastest-laps", limit |-> [int |-> -1]]
  /\ Len(session_data.fastest_laps) = 10
  /\ Len(got.response.body.data) = 9

\* C9: after a load or refresh that was answered 200, each of the five lists
\* was extracted from the session that is now current, or is empty because
\* that session lacks its table.  Stated for the passes that ran to
\* completion, where no aborted extraction is involved.
C9_ReplacedWholesale ==
  \A t \in Threads :
    (pc[t] = "done" /\ req[t].kind \in {"load", "refresh"} /\ resp[t].status = 200
       /\ err[t] = NoError) =>
      \A f \in Lists :
        \/ origin[f] = current_session
        \/ f \in Absent(current_session.id) /\ session_data[f] = << >>

\* C10: the response of GET /api/top3 has min(3, len(positions)) entries, and
\* they are the first entries of the response of GET /api/positions, in order.
C10_Top3IsPrefix ==
  (got # None /\ got.request.endpoint = "/api/top3") =>
    LET top3 == got.response.body.data
        all == get_positions(session_data).body.data
    IN  /\ Len(top3) = Min(3, Len(all))
        /\ \A i \in 1..Len(top3) : top3[i] = all[i]

C10_Witness ==
  /\ got # None
  /\ got.request.endpoint = "/api/top3"
  /\ Len(session_data.positions) = 4
  /\ Len(got.response.body.data) = 3

\* the limit a GET request asks for: its limit parameter, or the default
LimitOf(r, default) == LimitArg(r.limit, default)

\* C11: the response of GET /api/fastest-laps with limit N (5 when the
\* parameter is absent) has min(N, len(fastest_laps)) entries, none when that
\* is negative, and they are the first entries of fastest_laps, ascending by
\* lap_time_seconds.
C11_LimitIsMin ==
  (got # None /\ got.request.endpoint = "/api/fastest-laps") =>
    LET data == got.response.body.data
        all == session_data.fastest_laps
        n == Min(LimitOf(got.request, 5), Len(all))
    IN  /\ Len(data) = (IF n < 0 THEN 0 ELSE n)
        /\ \A i \in 1..Len(data) : data[i] = all[i]
        /\ \A i \in 1..(Len(data) - 1) :
             data[i].lap_time_seconds <= data[i + 1].lap_time_seconds

\* the timed laps of the lap log of session s, in the log's order
TimedLaps(s) ==
  LET Timed(row) == NotNa(row.LapTime)
  IN  SelectSeq(Sessions[s].laps.rows, Timed)

\* C12: fastest_laps is empty until it is first extracted; from then on it has
\* min(10, number of timed laps) entries, at most 10, each the record of a
\* timed lap of the session it was extracted from (no lap twice), ascending by
\* lap time, and its k-th entry has the k-th smallest lap time of that session.
C12_FastestLapsAreTheTenFastest ==
  LET fl == session_data.fastest_laps
  IN  IF origin.fastest_laps = None THEN fl = << >>
      ELSE LET timed == TimedLaps(origin.fastest_laps.id)
               Secs(j) == TotalSeconds(timed[j].LapTime)
           IN  /\ Len(fl) <= 10
               /\ Len(fl) = Min(10, Len(timed))
               /\ \A k \in 1..Len(fl) :
                    /\ \E j \in 1..Len(timed) : fl[k] = LapRecord(timed[j])
                    /\ Cardinality({i \in 1..Len(fl) : fl[i] = fl[k]})
                         <= Cardinality({j \in 1..Len(timed) : LapRecord(timed[j]) = fl[k]})
                    /\ Cardinality({j \in 1..Len(timed) : Secs(j) < fl[k].lap_time_seconds}) < k
                    /\ k <= Cardinality({j \in 1..Len(timed) : Secs(j) <= fl[k].lap_time_seconds})
               /\ \A k \in 1..(Len(fl) - 1) :
                    fl[k].lap_time_seconds <= fl[k + 1].lap_time_seconds

C12_Witness ==
  /\ booted
  /\ posts = MaxPosts
  /\ origin.fastest_laps = Handle("Race")
  /\ Len(TimedLaps("Race")) = 11
  /\ Len(Sessions["Race"].laps.rows) = 12
  /\ Len(session_data.fastest_laps) = 10
  /\ current_session # Handle("Race")

\* the label table of the track-status codes other than green
FlagLabels ==
  ("2" :> "Yellow Flag") @@ ("4" :> "Safety Car") @@ ("5" :> "Red Flag")
    @@ ("6" :> "Virtual Safety Car") @@ ("7" :> "VSC Ending")

\* C13: no track_status entry has status_code "1"; an entry whose code is one
\* of 2, 4, 5, 6, 7 carries that code's label and an entry with any other code
\* carries "Unknown"; every row of the extracted log whose code is not "1" has
\* its entry; and the track-status step raises only when the log lacks a
\* column, never because of a code.  The collaborator's Status column holds
\* strings.
C13_TrackStatusLabels ==
  LET ts == session_data.track_status
  IN  /\ \A i \in 1..Len(ts) :
           /\ ts[i].status_code # "1"
           /\ ts[i].status_code \in DOMAIN FlagLabels => ts[i].status = FlagLabels[ts[i].status_code]
           /\ ts[i].status_code \notin DOMAIN FlagLabels => ts[i].status = "Unknown"
      /\ origin.track_status # None =>
           LET log == Sessions[origin.track_status.id].track_status.rows
           IN  Len(ts) = Cardinality({j \in 1..Len(log) : log[j].Status # "1"})
      /\ \A t \in Threads :
           err[t] = "track_status" =>
             ~({"Status", "Time"} \subseteq Sessions[current_session.id].track_status.cols)

C13_Witness ==
  /\ origin.track_status = Handle("Race")
  /\ Len(Sessions["Race"].track_status.rows) = 5
  /\ Len(session_data.track_status) = 3
  /\ \E i \in 1..Len(session_data.track_status) :
       /\ session_data.track_status[i].status_code = "9"
       /\ session_data.track_status[i].status = "Unknown"
  /\ \E i \in 1..Len(session_data.track_status) :
       /\ session_data.track_status[i].status_code = "4"
       /\ session_data.track_status[i].status = "Safety Car"

\* C14: the snapshot's is_live flag is false in every state, and every
\* response of GET /api/status reports is_live false.
C14_NeverLive ==
  /\ session_data.is_live = FALSE
  /\ get_status(current_session, session_data).body.is_live = FALSE
  /\ (got # None /\ got.request.endpoint = "/api/status") =>
       got.response.body.is_live = FALSE

C14_Witness ==
  /\ got # None
  /\ got.request.endpoint = "/api/status"
  /\ got.response.body.is_live = FALSE
  /\ got.response.body.session_loaded
  /\ got.response.body.last_update = IsoFormat(MaxPosts + 1)
  /\ posts = MaxPosts

\* thread t has served a load or refresh whose pass ran to completion, and
\* has its 200 response ready
Completed(t) ==
  /\ pc[t] = "done"
  /\ req[t].kind \in {"load", "refresh"}
  /\ resp[t].status = 200
  /\ err[t] = NoError

\* C15: when the handlers of concurrent loads and refreshes have all returned,
\* each after a complete pass, every list that the current session provides
\* was extracted from the current session.
C15_ConcurrentPostsEndConsistent ==
  (\A t \in Threads : Completed(t)) =>
    \A f \in Lists \ Absent(current_session.id) : origin[f] = current_session

\* C16: a load or refresh that has returned and left last_update as it found
\* it has left all five lists as it found them, so that reads before and
\* after it with equal last_update see equal lists.  Stated for operations
\* that begin with a stamped snapshot.
C16_StampVersionsData ==
  \A t \in Threads :
    (pc[t] = "done" /\ req[t].kind \in {"load", "refresh"} /\ pre[t] # None
       /\ pre[t].session_data.last_update # None) =>
      (session_data.last_update = pre[t].session_data.last_update =>
         \A f \in Lists : session_data[f] = pre[t].session_data[f])

\* C17: once a load_session call has returned True the handle is never None
\* again and GET /api/status reports session_loaded true; a load whose
\* collaborator call fails leaves the handle it found; and a refresh keeps the
\* handle, is answered 200, and after a complete pass every list that the
\* session provides has been extracted from that same, earlier loaded session.
C17_HandleNeverCleared ==
  /\ loads.succeeded > 0 =>
       /\ current_session # None
       /\ get_status(current_session, session_data).body.session_loaded
       /\ (got # None /\ got.request.endpoint = "/api/status") =>
            got.response.body.session_loaded
  /\ \A t \in Threads :
       /\ (LoadFailed(t) /\ pre[t] # None) => current_session = pre[t].current_session
       /\ (req[t].kind = "refresh" /\ loads.succeeded > 0 /\ pre[t] # None) =>
            /\ current_session = pre[t].current_session
            /\ pc[t] = "done" => resp[t].status = 200
            /\ (pc[t] = "done" /\ err[t] = NoError) =>
                 \A f \in Lists \ Absent(current_session.id) : origin[f] = pre[t].current_session

C17_Witness ==
  \E t \in Threads :
    /\ pc[t] = "done" /\ req[t].kind = "refresh" /\ resp[t].status = 200
    /\ loads.last = "failed" /\ loads.succeeded = 1
    /\ current_session = Handle(DefaultEvent)
    /\ session_data.last_update = IsoFormat(2)
    /\ \A f \in Lists : origin[f] = current_session

\* C18: in every state, under every interleaving of handlers, a non-null
\* last_update implies that a session is loaded, and so does every non-empty
\* list of the snapshot; the same holds of what a GET /api/status or
\* GET /api/full-data response shows.
C18_DataImpliesSession ==
  /\ session_data.last_update # None => current_session # None
  /\ \A f \in Lists : session_data[f] # << >> => current_session # None
  /\ (got # None /\ got.request.endpoint = "/api/status") =>
       (got.response.body.last_update # None => got.response.body.session_loaded)
  /\ (got # None /\ got.request.endpoint = "/api/full-data") =>
       \A f \in Lists : got.response.body.data[f] # << >> => current_session # None

C18_Witness ==
  /\ current_session # None
  /\ session_data.last_update # None
  /\ session_data.positions # << >>
  /\ \E t, u \in Threads :
       /\ pc[t] = "load_except"
       /\ pc[u] \in {"update_track_status", "update_fastest_laps", "update_pit_stops"}
       /\ req[u].kind = "load"

\* C19: from the moment a refresh is accepted with no other request in
\* progress until it has answered, the handle and the five lists are equal to
\* what they were when it began, whatever load or refresh preceded it; only
\* last_update may differ.
C19_RefreshIsIdempotent ==
  \A t \in Threads :
    (req[t].kind = "refresh" /\ pre[t] # None) =>
      /\ current_session = pre[t].current_session
      /\ session_data.is_live = pre[t].session_data.is_live
      /\ \A f \in Lists : session_data[f] = pre[t].session_data[f]

C19_Witness ==
  \E t \in Threads :
    /\ pc[t] = "done" /\ req[t].kind = "refresh" /\ resp[t].status = 200
    /\ err[t] = NoError
    /\ loads = [succeeded |-> 1, failed |-> 0, last |-> "succeeded"]
    /\ posts = 2
    /\ pre[t].session_data.last_update = IsoFormat(2)
    /\ session_data.last_update = IsoFormat(3)
    /\ \A f \in Lists : session_data[f] # << >>

====
